---- MODULE Spec2Model ----
(***************************************************************************)
(* State-machine model of c3nav.mesh.baseformats: the format descriptors   *)
(* (SimpleFormat, BoolFormat, FixedStrFormat, FixedHexFormat,              *)
(* VarArrayFormat, VarStrFormat) and StructType with its union registry.   *)
(*                                                                         *)
(* Python values are tagged records; every tag has its own payload field,  *)
(* so two values of different Python types are never equal.  A raised      *)
(* exception is the value Raise(name).  Byte strings are sequences of      *)
(* 0..255, text strings are sequences of code points.  struct's native     *)
(* byte order is taken to be little-endian.                                *)
(***************************************************************************)
EXTENDS Integers, Sequences, FiniteSets, TLC

VARIABLES classes, union_options, call, ColorManager, managers, refreshes,
          requests, map_update_lock, mapupdates, committed, changeset

\* the state of mapdata/render/theme.py and of editor/views/base.py
render_vars == <<ColorManager, managers, refreshes>>
editor_vars == <<requests, map_update_lock, mapupdates, committed, changeset>>

vars == <<classes, union_options, call, render_vars, editor_vars>>

---------------------------------------------------------------------------
(* Python values *)

NoneV == [t |-> "none"]
IntV(n) == [t |-> "int", i |-> n]
BoolV(p) == [t |-> "bool", p |-> p]
StrV(s) == [t |-> "str", s |-> s]
BytesV(y) == [t |-> "bytes", y |-> y]
TupleV(x) == [t |-> "tuple", x |-> x]
ListV(l) == [t |-> "list", l |-> l]
DictV(d) == [t |-> "dict", d |-> d]
Raise(e) == [t |-> "raise", e |-> e]

IsRaise(r) == r.t = "raise"

Min2(a, b) == IF a < b THEN a ELSE b
Max2(a, b) == IF a > b THEN a ELSE b

\* data[:n] and data[n:] of a byte or text sequence
Take(s, n) == SubSeq(s, 1, Min2(n, Len(s)))
Drop(s, n) == IF n >= Len(s) THEN <<>> ELSE SubSeq(s, n + 1, Len(s))

RECURSIVE rstrip0(_)
\* bytes.rstrip(b"\0")
rstrip0(s) ==
    IF s = <<>> THEN s
    ELSE IF s[Len(s)] # 0 THEN s
    ELSE rstrip0(SubSeq(s, 1, Len(s) - 1))

\* bytes.ljust(n, b"\0")
ljust0(s, n) == s \o [k \in 1..(IF n > Len(s) THEN n - Len(s) ELSE 0) |-> 0]

RECURSIVE utf8_encode(_)
\* str.encode(): UTF-8 of code points below 2048
utf8_encode(s) ==
    IF s = <<>> THEN <<>>
    ELSE IF Len(s) = 1
         THEN LET c == Head(s) IN
              IF c < 128 THEN <<c>> ELSE <<192 + (c \div 64), 128 + (c % 64)>>
    ELSE utf8_encode(SubSeq(s, 1, Len(s) \div 2))
         \o utf8_encode(SubSeq(s, (Len(s) \div 2) + 1, Len(s)))

RECURSIVE utf8_decode(_)
\* bytes.decode(): the code points, or <<-1>> at the head of an invalid tail
utf8_decode(y) ==
    IF y = <<>> THEN <<>>
    ELSE IF y[1] < 128 THEN <<y[1]>> \o utf8_decode(Tail(y))
    ELSE IF y[1] >= 194 /\ y[1] < 224 /\ Len(y) >= 2 /\ y[2] >= 128 /\ y[2] < 192
         THEN <<(y[1] - 192) * 64 + (y[2] - 128)>> \o utf8_decode(Drop(y, 2))
    ELSE <<-1>>

bytes_decode(y) ==
    LET s == utf8_decode(y) IN
    IF \E k \in 1..Len(s) : s[k] = -1 THEN Raise("UnicodeDecodeError") ELSE StrV(s)

\* "%02x" % i
hexdigit(n) == IF n < 10 THEN 48 + n ELSE 87 + n
hex02x(i) == <<hexdigit(i \div 16), hexdigit(i % 16)>>

hexval(c) ==
    IF c >= 48 /\ c <= 57 THEN c - 48
    ELSE IF c >= 97 /\ c <= 102 THEN c - 87
    ELSE IF c >= 65 /\ c <= 70 THEN c - 55
    ELSE -1

IsSpace(c) == c \in {9, 10, 11, 12, 13, 32}

RECURSIVE fromhex(_)
\* bytes.fromhex(): byte values, or <<-1>> at the head of an invalid tail
fromhex(s) ==
    IF s = <<>> THEN <<>>
    ELSE IF IsSpace(s[1]) THEN fromhex(Tail(s))
    ELSE IF Len(s) >= 2 /\ hexval(s[1]) >= 0 /\ hexval(s[2]) >= 0
         THEN <<hexval(s[1]) * 16 + hexval(s[2])>> \o fromhex(Drop(s, 2))
    ELSE <<-1>>

RECURSIVE str_replace_colon(_)
\* value.replace(':', '')
str_replace_colon(s) ==
    IF s = <<>> THEN <<>>
    ELSE (IF s[1] = 58 THEN <<>> ELSE <<s[1]>>) \o str_replace_colon(Tail(s))

RECURSIVE str_join(_, _)
\* sep.join(parts)
str_join(sep, parts) ==
    IF parts = <<>> THEN <<>>
    ELSE IF Len(parts) = 1 THEN parts[1]
    ELSE parts[1] \o sep \o str_join(sep, Tail(parts))

---------------------------------------------------------------------------
(* struct.calcsize / struct.pack / struct.unpack for one type code *)

\* the one- and two-byte type codes "B", "b", "H", "h"
Pow256(w) == IF w = 1 THEN 256 ELSE 65536

code_size(code) == IF code \in {"B", "b"} THEN 1 ELSE 2

code_signed(code) == code \in {"b", "h"}

code_min(code) == IF code_signed(code) THEN 0 - (Pow256(code_size(code)) \div 2) ELSE 0
code_max(code) ==
    IF code_signed(code) THEN (Pow256(code_size(code)) \div 2) - 1
    ELSE Pow256(code_size(code)) - 1

\* calcsize that pads every item to two bytes
calcsize_aligned(code, num) == num * 2

calcsize(code, num) == num * code_size(code)

RECURSIVE le_bytes(_, _)
le_bytes(n, w) == IF w = 0 THEN <<>> ELSE <<n % 256>> \o le_bytes(n \div 256, w - 1)

RECURSIVE le_value(_)
le_value(y) == IF y = <<>> THEN 0 ELSE y[1] + 256 * le_value(Tail(y))

IsIntegral(v) == v.t \in {"int", "bool"}
int_of(v) == IF v.t = "int" THEN v.i ELSE IF v.t = "bool" /\ v.p THEN 1 ELSE 0

RECURSIVE pack_items(_, _)
pack_items(code, args) ==
    IF args = <<>> THEN <<>>
    ELSE le_bytes(int_of(args[1]) % Pow256(code_size(code)), code_size(code))
         \o pack_items(code, Tail(args))

\* struct.pack that reduces an out-of-range argument modulo 2^(8w)
struct_pack_wrapping(code, num, args) ==
    IF Len(args) # num THEN Raise("struct.error")
    ELSE IF \E k \in 1..Len(args) : ~IsIntegral(args[k]) THEN Raise("struct.error")
    ELSE BytesV(pack_items(code, args))

\* struct.pack("<num><code>", *args)
struct_pack(code, num, args) ==
    IF Len(args) # num THEN Raise("struct.error")
    ELSE IF \E k \in 1..Len(args) : ~IsIntegral(args[k]) THEN Raise("struct.error")
    ELSE IF \E k \in 1..Len(args) :
                int_of(args[k]) < code_min(code) \/ int_of(args[k]) > code_max(code)
         THEN Raise("struct.error")
    ELSE BytesV(pack_items(code, args))

unpack_item(code, y) ==
    LET u == le_value(y) IN
    IF code_signed(code) /\ u > code_max(code) THEN u - Pow256(code_size(code)) ELSE u

\* struct.unpack("<num><code>", y): a tuple of ints, or struct.error
struct_unpack(code, num, y) ==
    IF Len(y) # calcsize(code, num) THEN Raise("struct.error")
    ELSE TupleV([k \in 1..num |->
            IntV(unpack_item(code, SubSeq(y, (k - 1) * code_size(code) + 1,
                                            k * code_size(code))))])

---------------------------------------------------------------------------
(* Format descriptors *)

NoFormat == [k |-> "none"]
SimpleFormat(code, num) == [k |-> "Simple", code |-> code, num |-> num]
BoolFormat == [k |-> "Bool", code |-> "B", num |-> 1]
FixedStrFormat(num) == [k |-> "FixedStr", num |-> num]
FixedHexFormat(num, sep) == [k |-> "FixedHex", code |-> "B", num |-> num, sep |-> sep]
VarArrayFormat(child, num_fmt) == [k |-> "VarArray", child |-> child, num_fmt |-> num_fmt]
VarStrFormat(num_fmt) == [k |-> "VarStr", num_fmt |-> num_fmt]

\* the elements of an iterable passed as *value, or <<Raise>> when not iterable
star_args(value) ==
    IF value.t = "tuple" THEN value.x
    ELSE IF value.t = "list" THEN value.l
    ELSE IF value.t = "bytes" THEN [k \in 1..Len(value.y) |-> IntV(value.y[k])]
    ELSE IF value.t = "str" THEN [k \in 1..Len(value.s) |-> StrV(<<value.s[k]>>)]
    ELSE <<Raise("TypeError")>>

SimpleFormat_encode(fmt, value) ==
    IF fmt.num = 1 THEN struct_pack(fmt.code, fmt.num, <<value>>)
    ELSE IF value.t \notin {"tuple", "list", "bytes", "str"} THEN Raise("TypeError")
    ELSE struct_pack(fmt.code, fmt.num, star_args(value))

SimpleFormat_decode(fmt, data) ==
    IF data.t # "bytes" THEN Raise("TypeError")
    ELSE LET value == struct_unpack(fmt.code, fmt.num, Take(data.y, calcsize(fmt.code, fmt.num))) IN
         IF IsRaise(value) THEN value
         ELSE TupleV(<<IF Len(value.x) = 1 THEN value.x[1] ELSE value,
                       BytesV(Drop(data.y, calcsize(fmt.code, fmt.num)))>>)

\* int(value)
py_int(value) == IF IsIntegral(value) THEN IntV(int_of(value)) ELSE Raise("TypeError")

\* bool(value)
py_bool(value) ==
    IF value.t = "int" THEN BoolV(value.i # 0)
    ELSE IF value.t = "bool" THEN value
    ELSE BoolV(TRUE)

BoolFormat_encode(fmt, value) ==
    IF IsRaise(py_int(value)) THEN py_int(value)
    ELSE SimpleFormat_encode(fmt, py_int(value))

BoolFormat_decode(fmt, data) ==
    LET r == SimpleFormat_decode(fmt, data) IN
    IF IsRaise(r) THEN r ELSE TupleV(<<py_bool(r.x[1]), r.x[2]>>)

\* returns a one-element tuple holding the padded bytes (trailing comma in the source)
FixedStrFormat_encode(fmt, value) ==
    IF value.t # "str" THEN Raise("AttributeError")
    ELSE TupleV(<<BytesV(ljust0(Take(utf8_encode(value.s), fmt.num), fmt.num))>>)

FixedStrFormat_decode(fmt, data) ==
    IF data.t # "bytes" THEN Raise("AttributeError")
    ELSE LET s == bytes_decode(rstrip0(Take(data.y, fmt.num))) IN
         IF IsRaise(s) THEN s ELSE TupleV(<<s, BytesV(Drop(data.y, fmt.num))>>)

FixedHexFormat_encode(fmt, value) ==
    IF value.t # "str" THEN Raise("AttributeError")
    ELSE LET y == fromhex(str_replace_colon(value.s)) IN
         IF \E k \in 1..Len(y) : y[k] = -1 THEN Raise("ValueError")
         ELSE SimpleFormat_encode(fmt, TupleV([k \in 1..Len(y) |-> IntV(y[k])]))

FixedHexFormat_decode(fmt, data) ==
    IF data.t # "bytes" THEN Raise("TypeError")
    ELSE LET y == Take(data.y, fmt.num) IN
         TupleV(<<StrV(str_join(fmt.sep, [k \in 1..Len(y) |-> hex02x(y[k])])),
                  BytesV(Drop(data.y, fmt.num))>>)

\* len(value) of a sized value
py_len(value) ==
    IF value.t = "list" THEN IntV(Len(value.l))
    ELSE IF value.t = "tuple" THEN IntV(Len(value.x))
    ELSE IF value.t = "str" THEN IntV(Len(value.s))
    ELSE IF value.t = "bytes" THEN IntV(Len(value.y))
    ELSE Raise("TypeError")

\* len(str): the length of the builtin type, not of the argument
len_of_str_type == Raise("TypeError")

\* data += more
bytes_iadd(data, more) ==
    IF IsRaise(data) THEN data
    ELSE IF IsRaise(more) THEN more
    ELSE IF more.t # "bytes" THEN Raise("TypeError")
    ELSE BytesV(data.y \o more.y)

RECURSIVE format_encode(_, _)
RECURSIVE format_decode(_, _)

RECURSIVE VarArrayFormat_encode_items(_, _, _)
\* the loop of lines 141-142, over the first half of values and then the second
VarArrayFormat_encode_items(fmt, data, values) ==
    IF IsRaise(data) \/ values = <<>> THEN data
    ELSE IF Len(values) = 1
         THEN bytes_iadd(data, format_encode(fmt.child, values[1]))
    ELSE VarArrayFormat_encode_items(fmt,
             VarArrayFormat_encode_items(fmt, data, SubSeq(values, 1, Len(values) \div 2)),
             SubSeq(values, (Len(values) \div 2) + 1, Len(values)))

VarArrayFormat_encode(fmt, values) ==
    IF IsRaise(py_len(values)) THEN py_len(values)
    ELSE VarArrayFormat_encode_items(fmt, struct_pack(fmt.num_fmt, 1, <<py_len(values)>>),
                                     star_args(values))

RECURSIVE VarArrayFormat_decode_items(_, _, _, _)
VarArrayFormat_decode_items(fmt, num, result, data) ==
    IF num <= 0 THEN TupleV(<<ListV(result), data>>)
    ELSE LET r == format_decode(fmt.child, data) IN
         IF IsRaise(r) THEN r
         ELSE VarArrayFormat_decode_items(fmt, num - 1, Append(result, r.x[1]), r.x[2])

\* decode that stops one element short of the prefix value
VarArrayFormat_decode_one_short(fmt, data) ==
    IF data.t # "bytes" THEN Raise("TypeError")
    ELSE LET num == struct_unpack(fmt.num_fmt, 1, Take(data.y, code_size(fmt.num_fmt))) IN
         IF IsRaise(num) THEN num
         ELSE VarArrayFormat_decode_items(fmt, num.x[1].i - 1, <<>>,
                                          BytesV(Drop(data.y, code_size(fmt.num_fmt))))

VarArrayFormat_decode(fmt, data) ==
    IF data.t # "bytes" THEN Raise("TypeError")
    ELSE LET num == struct_unpack(fmt.num_fmt, 1, Take(data.y, code_size(fmt.num_fmt))) IN
         IF IsRaise(num) THEN num
         ELSE VarArrayFormat_decode_items(fmt, num.x[1].i, <<>>,
                                          BytesV(Drop(data.y, code_size(fmt.num_fmt))))

VarStrFormat_encode(fmt, value) ==
    LET n == len_of_str_type IN
    IF IsRaise(n) THEN n
    ELSE IF value.t # "str" THEN Raise("AttributeError")
    ELSE bytes_iadd(struct_pack(fmt.num_fmt, 1, <<n>>), BytesV(utf8_encode(value.s)))

VarStrFormat_decode(fmt, data) ==
    IF data.t # "bytes" THEN Raise("TypeError")
    ELSE LET num == struct_unpack(fmt.num_fmt, 1, Take(data.y, code_size(fmt.num_fmt))) IN
         IF IsRaise(num) THEN num
         ELSE LET body == Drop(data.y, code_size(fmt.num_fmt))
                  s == bytes_decode(rstrip0(Take(body, num.x[1].i)))
              IN  IF IsRaise(s) THEN s
                  ELSE TupleV(<<s, BytesV(Drop(body, num.x[1].i))>>)

\* field_.metadata["format"].encode(value)
format_encode(fmt, value) ==
    IF fmt.k = "Simple" THEN SimpleFormat_encode(fmt, value)
    ELSE IF fmt.k = "Bool" THEN BoolFormat_encode(fmt, value)
    ELSE IF fmt.k = "FixedStr" THEN FixedStrFormat_encode(fmt, value)
    ELSE IF fmt.k = "FixedHex" THEN FixedHexFormat_encode(fmt, value)
    ELSE IF fmt.k = "VarArray" THEN VarArrayFormat_encode(fmt, value)
    ELSE VarStrFormat_encode(fmt, value)

\* field_.metadata["format"].decode(data)
format_decode(fmt, data) ==
    IF fmt.k = "Simple" THEN SimpleFormat_decode(fmt, data)
    ELSE IF fmt.k = "Bool" THEN BoolFormat_decode(fmt, data)
    ELSE IF fmt.k = "FixedStr" THEN FixedStrFormat_decode(fmt, data)
    ELSE IF fmt.k = "FixedHex" THEN FixedHexFormat_decode(fmt, data)
    ELSE IF fmt.k = "VarArray" THEN VarArrayFormat_decode(fmt, data)
    ELSE VarStrFormat_decode(fmt, data)

\* SimpleFormat.get_min_size / BaseVarFormat.get_min_size
format_get_min_size(fmt) ==
    IF fmt.k \in {"Simple", "Bool", "FixedHex"} THEN calcsize(fmt.code, fmt.num)
    ELSE IF fmt.k = "FixedStr" THEN fmt.num
    ELSE code_size(fmt.num_fmt)

\* BaseFormat.tojson / BaseFormat.fromjson
format_tojson(fmt, data) == data
format_fromjson(fmt, data) == data

---------------------------------------------------------------------------
(* StructType: the class table and the union registry *)

EmptyMap == [n \in {} |-> NoneV]

\* classes[c].base = 0 stands for StructType itself
RootClass == 0

union_type_field(cls) == IF cls = RootClass THEN "" ELSE classes[cls].union_type_field

RECURSIVE fields(_)
\* dataclasses.fields(cls): inherited fields first, then the class's own
fields(cls) ==
    IF cls = RootClass THEN <<>>
    ELSE fields(classes[cls].base) \o classes[cls].own

field_names(fs) == {fs[k].name : k \in 1..Len(fs)}

RECURSIVE issubclass(_, _)
issubclass(cls, other) ==
    IF cls = other THEN TRUE
    ELSE IF cls = RootClass THEN FALSE
    ELSE issubclass(classes[cls].base, other)

isinstance(value, cls) == value.t = "inst" /\ issubclass(value.cls, cls)

RECURSIVE class_attr(_, _)
\* attribute lookup along the base classes: set by setattr(cls, key, value)
class_attr(cls, name) ==
    IF cls = RootClass THEN Raise("AttributeError")
    ELSE IF name \in DOMAIN classes[cls].attrs THEN classes[cls].attrs[name]
    ELSE class_attr(classes[cls].base, name)

\* getattr(instance, name)
getattr(instance, name) ==
    IF instance.t # "inst" THEN Raise("AttributeError")
    ELSE IF name \in DOMAIN instance.f THEN instance.f[name]
    ELSE class_attr(instance.cls, name)

\* cls(**kwargs)
construct(cls, kwargs) == [t |-> "inst", cls |-> cls, f |-> kwargs]

\* == of two dictionary keys (True == 1)
py_key_eq(a, b) ==
    IF IsIntegral(a) /\ IsIntegral(b) THEN int_of(a) = int_of(b)
    ELSE a = b

has_key(reg, key) == \E k \in 1..Len(reg) : reg[k].key = key

key_index(reg, key) == CHOOSE k \in 1..Len(reg) : reg[k].key = key

\* reg[key]: the variant table of one discriminator field, in insertion order
options_of(reg, key) == IF has_key(reg, key) THEN reg[key_index(reg, key)].values ELSE <<>>

has_value(values, value) == \E k \in 1..Len(values) : py_key_eq(values[k].value, value)

\* cls.get_types()
get_types(cls) == options_of(union_options, union_type_field(cls))

\* get_type that ignores type_id and takes the first registered class
get_type_first(cls, type_id) ==
    IF get_types(cls) = <<>> THEN 0 ELSE get_types(cls)[1].cls

\* get_type that falls back to the first registered class for an unknown type_id
get_type_or_first(cls, type_id) ==
    LET values == get_types(cls) IN
    IF has_value(values, type_id)
    THEN values[CHOOSE k \in 1..Len(values) : py_key_eq(values[k].value, type_id)].cls
    ELSE IF values = <<>> THEN 0 ELSE values[1].cls

\* cls.get_type(type_id): the registered class, or 0 for KeyError
get_type(cls, type_id) ==
    LET values == get_types(cls) IN
    IF has_value(values, type_id)
    THEN values[CHOOSE k \in 1..Len(values) : py_key_eq(values[k].value, type_id)].cls
    ELSE 0

RECURSIVE StructType_encode(_, _, _)
RECURSIVE encode_fields(_, _, _, _, _)
RECURSIVE encode_union_fields(_, _, _)

\* the loop of lines 234-235: every base field through metadata["format"]
encode_union_fields(fs, instance, data) ==
    IF IsRaise(data) \/ fs = <<>> THEN data
    ELSE IF fs[1].format.k = "none" THEN Raise("KeyError")
    ELSE LET value == getattr(instance, fs[1].name) IN
         IF IsRaise(value) THEN value
         ELSE encode_union_fields(Tail(fs), instance,
                                  bytes_iadd(data, format_encode(fs[1].format, value)))

\* the loop of lines 241-254
encode_fields(cls, fs, instance, ignore_fields, data) ==
    IF IsRaise(data) \/ fs = <<>> THEN data
    ELSE IF fs[1].name \in ignore_fields
         THEN encode_fields(cls, Tail(fs), instance, ignore_fields, data)
    ELSE LET value == getattr(instance, fs[1].name) IN
         IF IsRaise(value) THEN value
         ELSE IF fs[1].format.k # "none"
              THEN encode_fields(cls, Tail(fs), instance, ignore_fields,
                                 bytes_iadd(data, format_encode(fs[1].format, value)))
         ELSE IF fs[1].type # RootClass
              THEN IF ~isinstance(value, fs[1].type) THEN Raise("ValueError")
                   ELSE encode_fields(cls, Tail(fs), instance, ignore_fields,
                                      bytes_iadd(data, StructType_encode(value.cls, value, {})))
         ELSE Raise("TypeError")

StructType_encode(cls, instance, ignore_fields) ==
    IF union_type_field(cls) # "" /\ ~(instance.t = "inst" /\ instance.cls = cls)
    THEN IF ~isinstance(instance, cls) THEN Raise("ValueError")
         ELSE LET data == encode_union_fields(fields(cls), instance, BytesV(<<>>)) IN
              IF IsRaise(data) THEN data
              ELSE bytes_iadd(data, StructType_encode(instance.cls, instance,
                                                      field_names(fields(cls))))
    ELSE encode_fields(cls, fields(cls), instance, ignore_fields, BytesV(<<>>))

RECURSIVE StructType_decode(_, _)
RECURSIVE decode_fields(_, _, _, _)

\* the loop of lines 262-273: [data, kwargs, no_init_data], or the exception
decode_fields(fs, data, kwargs, no_init_data) ==
    IF fs = <<>> THEN [t |-> "locals", data |-> data, kwargs |-> kwargs,
                       no_init_data |-> no_init_data]
    ELSE LET r == IF fs[1].format.k # "none" THEN format_decode(fs[1].format, data)
                  ELSE IF fs[1].type # RootClass THEN StructType_decode(fs[1].type, data)
                  ELSE Raise("TypeError")
         IN  IF IsRaise(r) THEN r
             ELSE IF fs[1].init
                  THEN decode_fields(Tail(fs), r.x[2], (fs[1].name :> r.x[1]) @@ kwargs,
                                     no_init_data)
                  ELSE decode_fields(Tail(fs), r.x[2], kwargs,
                                     (fs[1].name :> r.x[1]) @@ no_init_data)

\* decode that hands the variant the bytes left behind the base's fields
StructType_decode_from_remainder(cls, data) ==
    LET r == decode_fields(fields(cls), data, EmptyMap, EmptyMap) IN
    IF IsRaise(r) THEN r
    ELSE IF union_type_field(cls) # ""
         THEN IF union_type_field(cls) \notin DOMAIN r.no_init_data THEN Raise("TypeError")
              ELSE LET klass == get_type(cls, r.no_init_data[union_type_field(cls)]) IN
                   IF klass = 0 THEN Raise("TypeError")
                   ELSE StructType_decode(klass, r.data)
    ELSE TupleV(<<construct(cls, r.kwargs), r.data>>)

StructType_decode(cls, data) ==
    LET r == decode_fields(fields(cls), data, EmptyMap, EmptyMap) IN
    IF IsRaise(r) THEN r
    ELSE IF union_type_field(cls) # ""
         THEN IF union_type_field(cls) \notin DOMAIN r.no_init_data THEN Raise("TypeError")
              ELSE LET klass == get_type(cls, r.no_init_data[union_type_field(cls)]) IN
                   IF klass = 0 THEN Raise("TypeError")
                   ELSE StructType_decode(klass, data)
    ELSE TupleV(<<construct(cls, r.kwargs), r.data>>)

RECURSIVE StructType_tojson(_, _)
RECURSIVE tojson_fields(_, _, _, _)

\* the loop of lines 307-318
tojson_fields(cls, fs, instance, result) ==
    IF fs = <<>> THEN DictV(result)
    ELSE LET value == getattr(instance, fs[1].name) IN
         IF IsRaise(value) THEN value
         ELSE IF fs[1].format.k # "none"
              THEN tojson_fields(cls, Tail(fs), instance,
                                 (fs[1].name :> format_tojson(fs[1].format, value)) @@ result)
         ELSE IF fs[1].type # RootClass
              THEN IF ~isinstance(value, fs[1].type) THEN Raise("ValueError")
                   ELSE LET sub == StructType_tojson(value.cls, value) IN
                        IF IsRaise(sub) THEN sub
                        ELSE tojson_fields(cls, Tail(fs), instance,
                                           (fs[1].name :> sub) @@ result)
         ELSE Raise("TypeError")

\* the loop of lines 297-302: the discriminator entry of the result
tojson_discriminator(cls, instance) ==
    LET fs == fields(instance.cls)
        name == union_type_field(cls)
    IN  IF ~\E k \in 1..Len(fs) : fs[k].name = name THEN Raise("TypeError")
        ELSE LET f == fs[CHOOSE k \in 1..Len(fs) : fs[k].name = name] IN
             IF f.format.k = "none" THEN Raise("KeyError")
             ELSE LET value == getattr(instance, name) IN
                  IF IsRaise(value) THEN value
                  ELSE DictV(name :> format_tojson(f.format, value))

StructType_tojson(cls, instance) ==
    IF union_type_field(cls) # "" /\ ~(instance.t = "inst" /\ instance.cls = cls)
    THEN IF ~isinstance(instance, cls) THEN Raise("ValueError")
         ELSE LET result == tojson_discriminator(cls, instance) IN
              IF IsRaise(result) THEN result
              ELSE LET more == StructType_tojson(instance.cls, instance) IN
                   IF IsRaise(more) THEN more
                   ELSE DictV(more.d @@ result.d)
    ELSE tojson_fields(cls, fields(cls), instance, EmptyMap)

\* data.get(name, None)
dict_get(d, name) == IF name \in DOMAIN d THEN d[name] ELSE NoneV

RECURSIVE StructType_fromjson(_, _)
RECURSIVE fromjson_fields(_, _, _, _)

\* the loop of lines 334-346: [kwargs, no_init_data], or the exception
fromjson_fields(fs, data, kwargs, no_init_data) ==
    IF fs = <<>> THEN [t |-> "locals", kwargs |-> kwargs, no_init_data |-> no_init_data]
    ELSE LET raw_value == dict_get(data, fs[1].name)
             value == IF fs[1].format.k # "none" THEN format_fromjson(fs[1].format, raw_value)
                      ELSE IF fs[1].type # RootClass
                           THEN StructType_fromjson(fs[1].type, raw_value)
                      ELSE Raise("TypeError")
         IN  IF IsRaise(value) THEN value
             ELSE IF fs[1].init
                  THEN fromjson_fields(Tail(fs), data, (fs[1].name :> value) @@ kwargs,
                                       no_init_data)
                  ELSE fromjson_fields(Tail(fs), data, kwargs,
                                       (fs[1].name :> value) @@ no_init_data)

\* fromjson without the dispatch on the discriminator
StructType_fromjson_no_dispatch(cls, data) ==
    IF data.t # "dict" THEN Raise("AttributeError")
    ELSE LET r == fromjson_fields(fields(cls), data.d, EmptyMap, EmptyMap) IN
         IF IsRaise(r) THEN r ELSE construct(cls, r.kwargs)

\* data is the caller's mapping; the method works on data.copy()
StructType_fromjson(cls, data) ==
    IF data.t # "dict" THEN Raise("AttributeError")
    ELSE LET r == fromjson_fields(fields(cls), data.d, EmptyMap, EmptyMap) IN
         IF IsRaise(r) THEN r
         ELSE IF union_type_field(cls) # ""
              THEN IF union_type_field(cls) \notin DOMAIN r.no_init_data THEN Raise("TypeError")
                   ELSE LET klass == get_type(cls, r.no_init_data[union_type_field(cls)]) IN
                        IF klass = 0 THEN Raise("TypeError")
                        ELSE StructType_fromjson(klass, data)
         ELSE construct(cls, r.kwargs)

\* a + b of two sizes, an exception on either side wins
py_add(a, b) == IF IsRaise(a) THEN a ELSE IF IsRaise(b) THEN b ELSE IntV(a.i + b.i)

\* max(a, b) of two sizes
py_max(a, b) == IF IsRaise(a) THEN a ELSE IF IsRaise(b) THEN b ELSE IntV(Max2(a.i, b.i))

RECURSIVE StructType_get_min_size(_, _)
RECURSIVE sum_min_size(_)
RECURSIVE max_option_min_size(_, _)

\* f.metadata.get("format", f.type).get_min_size()
field_min_size(f) ==
    IF f.format.k # "none" THEN IntV(format_get_min_size(f.format))
    ELSE IF f.type # RootClass THEN StructType_get_min_size(f.type, FALSE)
    ELSE Raise("AttributeError")

sum_min_size(fs) ==
    IF fs = <<>> THEN IntV(0)
    ELSE py_add(field_min_size(fs[1]), sum_min_size(Tail(fs)))

RECURSIVE max_option_min_size_all_fields(_, _)
\* the maximum taken over option.get_min_size(), inherited fields included
max_option_min_size_all_fields(acc, values) ==
    IF values = <<>> THEN acc
    ELSE max_option_min_size_all_fields(
             py_max(acc, StructType_get_min_size(values[1].cls, FALSE)), Tail(values))

\* max([0] + [option.get_min_size(True) for option in values])
max_option_min_size(acc, values) ==
    IF values = <<>> THEN acc
    ELSE max_option_min_size(py_max(acc, StructType_get_min_size(values[1].cls, TRUE)),
                             Tail(values))

StructType_get_min_size(cls, no_inherited_fields) ==
    IF union_type_field(cls) # ""
    THEN py_add(sum_min_size(fields(cls)), max_option_min_size(IntV(0), get_types(cls)))
    ELSE IF no_inherited_fields
         THEN sum_min_size(SelectSeq(fields(cls), LAMBDA f : f.defining_class = cls))
    ELSE sum_min_size(SelectSeq(fields(cls), LAMBDA f : ~f.union_discriminator))

---------------------------------------------------------------------------
(* C source generator: declarations as structured text *)

\* SimpleFormat.c_types
c_types(code) ==
    IF code = "B" THEN "uint8_t"
    ELSE IF code = "H" THEN "uint16_t"
    ELSE IF code = "b" THEN "int8_t"
    ELSE IF code = "h" THEN "int16_t"
    ELSE "char"

\* one declarator "<c_type> <name>[d1][d2]...;"
c_member(c_type, name, dims) == [c_type |-> c_type, name |-> name, dims |-> dims]

\* SimpleFormat(self.num_fmt).get_c_code("num")
get_num_c_code(fmt) == c_member(c_types(fmt.num_fmt), "num", <<>>)

RECURSIVE format_get_c_parts(_)
\* get_c_parts(): the declarators that precede the member, its type and its suffix
format_get_c_parts(fmt) ==
    IF fmt.k \in {"Simple", "Bool", "FixedHex"}
    THEN [pre |-> <<>>, c_type |-> c_types(fmt.code),
          dims |-> IF fmt.num = 1 THEN <<>> ELSE <<fmt.num>>]
    ELSE IF fmt.k = "FixedStr"
    THEN [pre |-> <<>>, c_type |-> c_types("s"),
          dims |-> IF fmt.num = 1 THEN <<>> ELSE <<fmt.num>>]
    ELSE IF fmt.k = "VarArray"
    THEN LET child == format_get_c_parts(fmt.child) IN
         [pre |-> <<get_num_c_code(fmt)>> \o child.pre, c_type |-> child.c_type,
          dims |-> <<0>> \o child.dims]
    ELSE [pre |-> <<get_num_c_code(fmt)>>, c_type |-> "char", dims |-> <<0>>]

\* BaseFormat.get_c_code(name)
format_get_c_code(fmt, name) ==
    LET parts == format_get_c_parts(fmt) IN
    parts.pre \o <<c_member(parts.c_type, name, parts.dims)>>

CItems(items) == [t |-> "items", items |-> items]

RECURSIVE get_c_struct_items(_, _, _, _)
RECURSIVE c_struct_fields(_, _, _, _, _)
RECURSIVE get_c_union_code(_, _)
RECURSIVE c_union_items(_, _, _)
RECURSIVE c_union_max(_, _)

\* max(..., default=0) over option.get_min_size(no_inherited_fields=True)
c_union_max(acc, values) ==
    IF values = <<>> THEN acc
    ELSE c_union_max(py_max(acc, StructType_get_min_size(values[1].cls, TRUE)), Tail(values))

\* the union size taken over option.get_min_size(), inherited fields included
get_c_union_size_all_fields(cls) == max_option_min_size_all_fields(IntV(0), get_types(cls))

get_c_union_size(cls) ==
    IF get_types(cls) = <<>> THEN IntV(0)
    ELSE c_union_max(StructType_get_min_size(get_types(cls)[1].cls, TRUE),
                     Tail(get_types(cls)))

\* the loop of lines 413-417: one struct member per registered option
c_union_items(values, ignore_fields, union_items) ==
    IF values = <<>> THEN CItems(union_items)
    ELSE LET r == get_c_struct_items(values[1].cls, ignore_fields, FALSE, TRUE) IN
         IF IsRaise(r) THEN r
         ELSE c_union_items(Tail(values), ignore_fields,
                            Append(union_items, [option |-> values[1].cls,
                                                 items |-> r.items]))

get_c_union_code(cls, ignore_fields) ==
    LET r == c_union_items(get_types(cls), ignore_fields, <<>>)
        size == get_c_union_size(cls)
    IN  IF IsRaise(r) THEN r
        ELSE IF IsRaise(size) THEN size
        ELSE [t |-> "union", options |-> r.items, bytes |-> size.i]

\* the loop of lines 369-393
c_struct_fields(cls, fs, ignore_fields, in_union, items) ==
    IF fs = <<>> THEN CItems(items)
    ELSE IF fs[1].name \in ignore_fields
         THEN c_struct_fields(cls, Tail(fs), ignore_fields, in_union, items)
    ELSE IF in_union /\ fs[1].defining_class # cls
         THEN c_struct_fields(cls, Tail(fs), ignore_fields, in_union, items)
    ELSE IF fs[1].format.k # "none"
         THEN IF ~fs[1].union_discriminator \/ fs[1].defining_class = cls
              THEN c_struct_fields(cls, Tail(fs), ignore_fields, in_union,
                       Append(items, [kind |-> "format", name |-> fs[1].name,
                                      members |-> format_get_c_code(fs[1].format, fs[1].name),
                                      items |-> <<>>, options |-> <<>>, bytes |-> 0]))
              ELSE c_struct_fields(cls, Tail(fs), ignore_fields, in_union, items)
    ELSE IF fs[1].type # RootClass
         THEN LET r == get_c_struct_items(fs[1].type, {}, FALSE, FALSE) IN
              IF IsRaise(r) THEN r
              ELSE c_struct_fields(cls, Tail(fs), ignore_fields, in_union,
                       Append(items, [kind |-> "struct", name |-> fs[1].name,
                                      members |-> <<>>, items |-> r.items,
                                      options |-> <<>>, bytes |-> 0]))
    ELSE Raise("TypeError")

\* cls.get_c_struct_items(ignore_fields, union_only=..., in_union=...)
get_c_struct_items(cls, ignore_fields, union_only, in_union) ==
    LET r == c_struct_fields(cls, fields(cls), ignore_fields, in_union, <<>>) IN
    IF IsRaise(r) THEN r
    ELSE IF union_type_field(cls) # "" /\ ~union_only
         THEN LET union_code == get_c_union_code(cls, ignore_fields) IN
              IF IsRaise(union_code) THEN union_code
              ELSE CItems(Append(r.items, [kind |-> "union", name |-> "",
                                           members |-> <<>>, items |-> <<>>,
                                           options |-> union_code.options,
                                           bytes |-> union_code.bytes]))
    ELSE r

---------------------------------------------------------------------------
(* Class statements: StructType.__init_subclass__ followed by @dataclass *)

\* value = kwargs.pop(key, None) for the keys already taken
drop_key(kwargs, key) == [n \in (DOMAIN kwargs) \ {key} |-> kwargs[n]]

\* values[value] = cls without the duplicate check
put_option(values, value, cls) ==
    IF has_value(values, value)
    THEN [j \in 1..Len(values) |->
            IF py_key_eq(values[j].value, value) THEN [value |-> value, cls |-> cls]
            ELSE values[j]]
    ELSE Append(values, [value |-> value, cls |-> cls])

RECURSIVE register_options_overwrite(_, _, _, _, _)
\* the registration loop without the duplicate check
register_options_overwrite(cls, k, reg, kwargs, attrs) ==
    IF k > Len(reg) THEN [reg |-> reg, kwargs |-> kwargs, attrs |-> attrs, raised |-> FALSE]
    ELSE LET key == reg[k].key IN
         IF key \notin DOMAIN kwargs
         THEN register_options_overwrite(cls, k + 1, reg, kwargs, attrs)
         ELSE IF kwargs[key] = NoneV
              THEN register_options_overwrite(cls, k + 1, reg, drop_key(kwargs, key), attrs)
         ELSE register_options_overwrite(cls, k + 1,
                  [reg EXCEPT ![k].values = put_option(@, kwargs[key], cls)],
                  drop_key(kwargs, key), (key :> kwargs[key]) @@ attrs)

RECURSIVE register_options(_, _, _, _, _)
\* the loop of lines 202-208 from the k-th registry key on
register_options(cls, k, reg, kwargs, attrs) ==
    IF k > Len(reg) THEN [reg |-> reg, kwargs |-> kwargs, attrs |-> attrs, raised |-> FALSE]
    ELSE LET key == reg[k].key IN
         IF key \notin DOMAIN kwargs THEN register_options(cls, k + 1, reg, kwargs, attrs)
         ELSE IF kwargs[key] = NoneV
              THEN register_options(cls, k + 1, reg, drop_key(kwargs, key), attrs)
         ELSE IF has_value(reg[k].values, kwargs[key])
              THEN [reg |-> reg, kwargs |-> drop_key(kwargs, key), attrs |-> attrs,
                    raised |-> TRUE]
         ELSE register_options(cls, k + 1,
                               [reg EXCEPT ![k].values =
                                    Append(@, [value |-> kwargs[key], cls |-> cls])],
                               drop_key(kwargs, key), (key :> kwargs[key]) @@ attrs)

\* StructType.__init_subclass__(cls, union_type_field, **kwargs) on registry reg:
\* the registry and the class attributes it leaves, and whether it raised TypeError
init_subclass(cls, utf, kwargs, reg) ==
    IF utf # "" /\ has_key(reg, utf)
    THEN [reg |-> reg, kwargs |-> kwargs, attrs |-> EmptyMap, raised |-> TRUE]
    ELSE LET reg1 == IF utf # "" THEN Append(reg, [key |-> utf, values |-> <<>>]) ELSE reg
             r == register_options(cls, 1, reg1, kwargs, EmptyMap)
         IN  IF r.raised THEN r
             ELSE IF DOMAIN r.kwargs # {} THEN [r EXCEPT !.raised = TRUE]
             ELSE r

bound_name(name) ==
    name = "StructType" \/ \E c \in 1..Len(classes) : classes[c].name = name /\ classes[c].ok

\* the class a name is bound to: the latest class statement of that name that completed
lookup(name) ==
    IF name = "StructType" \/ name = "" THEN RootClass
    ELSE CHOOSE c \in 1..Len(classes) :
            /\ classes[c].name = name /\ classes[c].ok
            /\ \A d \in 1..Len(classes) : (classes[d].name = name /\ classes[d].ok) => d <= c

\* the Field objects of a class body whose discriminator field keeps init = True
dataclass_fields_all_init(cls, st) ==
    [k \in 1..Len(st.fields) |->
        [name |-> st.fields[k].name,
         format |-> st.fields[k].format,
         type |-> lookup(st.fields[k].type),
         init |-> TRUE,
         union_discriminator |-> st.fields[k].name = st.union_type_field,
         defining_class |-> cls]]

\* the Field objects of the class body as dataclasses.fields() reports them
dataclass_fields(cls, st) ==
    [k \in 1..Len(st.fields) |->
        [name |-> st.fields[k].name,
         format |-> st.fields[k].format,
         type |-> lookup(st.fields[k].type),
         init |-> st.fields[k].name # st.union_type_field,
         union_discriminator |-> st.fields[k].name = st.union_type_field,
         defining_class |-> cls]]

Field(name, format, type) == [name |-> name, format |-> format, type |-> type]

ClassStatement(name, base, fs, utf, kwargs) ==
    [name |-> name, base |-> base, fields |-> fs, union_type_field |-> utf, kwargs |-> kwargs]

\* the class statements of the schema modules
ClassStatements ==
    { ClassStatement("Msg", "StructType",
                     <<Field("x", SimpleFormat("B", 1), ""), Field("t", SimpleFormat("B", 1), "")>>,
                     "t", EmptyMap),
      ClassStatement("Ping", "Msg", <<Field("a", SimpleFormat("H", 1), "")>>,
                     "", "t" :> IntV(1)),
      ClassStatement("Pong", "Msg", <<Field("b", BoolFormat, "")>>,
                     "", "t" :> IntV(2)),
      ClassStatement("Sub", "Msg", <<Field("s", SimpleFormat("B", 1), "")>>,
                     "s", "t" :> IntV(2)),
      ClassStatement("Leaf", "Sub", <<Field("w", SimpleFormat("B", 1), "")>>,
                     "", "s" :> IntV(1)),
      ClassStatement("Box", "StructType",
                     <<Field("m", NoFormat, "Msg"), Field("k", SimpleFormat("B", 1), "")>>,
                     "", EmptyMap),
      ClassStatement("Txt", "StructType", <<Field("label", FixedStrFormat(2), "")>>,
                     "", EmptyMap),
      ClassStatement("Stray", "StructType", <<Field("q", SimpleFormat("B", 1), "")>>,
                     "", ("t" :> IntV(1)) @@ ("s" :> IntV(1))),
      ClassStatement("Alt", "StructType", <<Field("t", SimpleFormat("B", 1), "")>>,
                     "t", EmptyMap),
      ClassStatement("Raw", "StructType", <<Field("r", NoFormat, "")>>, "", EmptyMap) }

MaxClasses == 3

\* the requests that reach a view decorated with accesses_mapdata, and a request the
\* decorator has not seen yet
Requests == {1, 2}
NewRequest == [pc |-> "new", method |-> "", direct_editing |-> FALSE, operations |-> 0,
               error |-> ""]

NoCall == [op |-> "none", cls |-> RootClass, fmt |-> NoFormat, arg |-> NoneV,
           arg_after |-> NoneV, ret |-> NoneV]

Init ==
    /\ classes = <<>>
    /\ union_options = <<>>
    /\ call = NoCall
    /\ ColorManager = [themes |-> EmptyMap, default_theme |-> NoneV]
    /\ managers = <<>>
    /\ refreshes = 0
    /\ requests = [r \in Requests |-> NewRequest]
    /\ map_update_lock = 0
    /\ mapupdates = <<>>
    /\ committed = {}
    /\ changeset = [operations |-> 0, updates |-> 0]

\* one class statement is executed
Declare(st) ==
    /\ call.op = "none"
    /\ Len(classes) < MaxClasses
    /\ ~\E c \in 1..Len(classes) : classes[c].name = st.name
    /\ bound_name(st.base)
    /\ \A k \in 1..Len(st.fields) : st.fields[k].type = "" \/ bound_name(st.fields[k].type)
    /\ LET cls == Len(classes) + 1
           r == init_subclass(cls, st.union_type_field, st.kwargs, union_options)
       IN  /\ union_options' = r.reg
           /\ classes' = Append(classes,
                  [name |-> st.name,
                   base |-> lookup(st.base),
                   own |-> IF r.raised THEN <<>> ELSE dataclass_fields(cls, st),
                   union_type_field |-> st.union_type_field,
                   attrs |-> r.attrs,
                   kwargs |-> st.kwargs,
                   ok |-> ~r.raised])
           /\ call' = [op |-> "class", cls |-> cls, fmt |-> NoFormat, arg |-> NoneV,
                       arg_after |-> NoneV,
                       ret |-> IF r.raised THEN Raise("TypeError") ELSE NoneV]
           /\ UNCHANGED <<render_vars, editor_vars>>

---------------------------------------------------------------------------
(* Inputs of the operations *)

MaxBuf == 4
MaxElems == 2

SeqsUpTo(S, n) == UNION {[1..k -> S] : k \in 0..n}

\* n-byte values and texts the leaf formats are exercised with
SampleInts(code) ==
    IF code_signed(code) THEN {code_min(code), -1, 0, code_max(code)}
    ELSE {0, 1, 258 % (code_max(code) + 1), code_max(code)}

SampleTexts == {<<>>, <<97>>, <<97, 98>>, <<233>>}

RECURSIVE LegalValues(_)
\* values a format descriptor is declared for
LegalValues(fmt) ==
    IF fmt.k = "Simple"
    THEN IF fmt.num = 1 THEN {IntV(n) : n \in SampleInts(fmt.code)}
         ELSE {TupleV([k \in 1..fmt.num |-> IntV(n)]) : n \in SampleInts(fmt.code)}
              \cup {TupleV([k \in 1..fmt.num |-> IntV(k)])}
    ELSE IF fmt.k = "Bool" THEN {BoolV(TRUE), BoolV(FALSE)}
    ELSE IF fmt.k = "FixedStr"
         THEN {StrV(s) : s \in {u \in SampleTexts : Len(utf8_encode(u)) <= fmt.num}}
    ELSE IF fmt.k = "FixedHex"
         THEN {StrV(str_join(fmt.sep, [k \in 1..fmt.num |-> hex02x(y[k])])) :
                    y \in [1..fmt.num -> {0, 171, 255}]}
    ELSE IF fmt.k = "VarArray"
         THEN {ListV(l) : l \in SeqsUpTo(LegalValues(fmt.child), MaxElems)}
    ELSE {StrV(s) : s \in SampleTexts}

\* values the fields of struct instances are filled with
FieldSample(fmt) ==
    IF fmt.k = "Simple" /\ fmt.num = 1 THEN {IntV(1), IntV(2)}
    ELSE IF fmt.k = "FixedStr" THEN {StrV(<<97>>)}
    ELSE LegalValues(fmt)

declared == {c \in 1..Len(classes) : classes[c].ok}

RECURSIVE LegalInstances(_)
RECURSIVE kwargs_product(_)

\* a class whose instances can be built by its constructor and read field by field
instantiable(cls) ==
    /\ classes[cls].ok
    /\ union_type_field(cls) = ""
    /\ \A k \in 1..Len(fields(cls)) :
          fields(cls)[k].init \/ ~IsRaise(class_attr(cls, fields(cls)[k].name))

\* instances a field of nested struct type cls accepts
InstancesOf(cls) ==
    UNION {LegalInstances(d) : d \in {e \in declared : instantiable(e) /\ issubclass(e, cls)}}

kwargs_product(fs) ==
    IF fs = <<>> THEN {EmptyMap}
    ELSE IF ~fs[1].init THEN kwargs_product(Tail(fs))
    ELSE LET values == IF fs[1].format.k # "none" THEN FieldSample(fs[1].format)
                       ELSE IF fs[1].type # RootClass THEN InstancesOf(fs[1].type)
                       ELSE {IntV(1)}
         IN  {(fs[1].name :> v) @@ m : v \in values, m \in kwargs_product(Tail(fs))}

LegalInstances(cls) == {construct(cls, kw) : kw \in kwargs_product(fields(cls))}

AllInstances == UNION {LegalInstances(d) : d \in {e \in declared : instantiable(e)}}

StructBytes == {1, 2}
Buffers == SeqsUpTo(StructBytes, MaxBuf)

\* mappings handed to fromjson: what tojson gives for the instances of cls, and
\* mappings that give every field of cls, or every field but the discriminator,
\* the same number
JsonInputs(cls) ==
    {StructType_tojson(cls, i) : i \in {j \in AllInstances : isinstance(j, cls)}}
    \cup {DictV([n \in field_names(fields(cls)) \ drop |-> IntV(v)]) :
            v \in {1, 2, 3}, drop \in {{}, {union_type_field(cls)}}}

---------------------------------------------------------------------------
(* Operations on struct types *)

\* fromjson popping the discriminator from the caller's mapping
fromjson_caller_data_popped(cls, data) ==
    IF data.t = "dict" /\ union_type_field(cls) \in DOMAIN data.d
    THEN DictV(drop_key(data.d, union_type_field(cls)))
    ELSE data

\* the caller's mapping when fromjson returns: line 327 rebinds data to data.copy(),
\* and the pop of line 350 works on the method's own no_init_data
fromjson_caller_data(cls, data) == data

Call(op, cls, arg, arg_after, ret) ==
    [op |-> op, cls |-> cls, fmt |-> NoFormat, arg |-> arg, arg_after |-> arg_after,
     ret |-> ret]

Encode(cls, instance) ==
    /\ call.op = "none"
    /\ isinstance(instance, cls) \/ union_type_field(cls) # ""
    /\ call' = Call("encode", cls, instance, instance, StructType_encode(cls, instance, {}))
    /\ UNCHANGED <<classes, union_options, render_vars, editor_vars>>

Decode(cls, data) ==
    /\ call.op = "none"
    /\ call' = Call("decode", cls, BytesV(data), BytesV(data),
                    StructType_decode(cls, BytesV(data)))
    /\ UNCHANGED <<classes, union_options, render_vars, editor_vars>>

Tojson(cls, instance) ==
    /\ call.op = "none"
    /\ isinstance(instance, cls) \/ union_type_field(cls) # ""
    /\ call' = Call("tojson", cls, instance, instance, StructType_tojson(cls, instance))
    /\ UNCHANGED <<classes, union_options, render_vars, editor_vars>>

Fromjson(cls, data) ==
    /\ call.op = "none"
    /\ ~IsRaise(data)
    /\ call' = Call("fromjson", cls, data, fromjson_caller_data(cls, data),
                    StructType_fromjson(cls, data))
    /\ UNCHANGED <<classes, union_options, render_vars, editor_vars>>

GetMinSize(cls, no_inherited_fields) ==
    /\ call.op = "none"
    /\ call' = Call("get_min_size", cls, BoolV(no_inherited_fields),
                    BoolV(no_inherited_fields),
                    StructType_get_min_size(cls, no_inherited_fields))
    /\ UNCHANGED <<classes, union_options, render_vars, editor_vars>>

GetCStructItems(cls, in_union) ==
    /\ call.op = "none"
    /\ call' = Call("get_c_struct_items", cls, BoolV(in_union), BoolV(in_union),
                    get_c_struct_items(cls, {}, FALSE, in_union))
    /\ UNCHANGED <<classes, union_options, render_vars, editor_vars>>

\* the caller takes the result; the codec is synchronous, one call at a time
Return ==
    /\ call.op # "none"
    /\ call' = NoCall
    /\ UNCHANGED <<classes, union_options, render_vars, editor_vars>>

Next ==
    \/ call.op = "none" /\ \E st \in ClassStatements : Declare(st)
    \/ call.op = "none" /\ \E cls \in declared, instance \in AllInstances : Encode(cls, instance)
    \/ call.op = "none" /\ \E cls \in declared, data \in Buffers : Decode(cls, data)
    \/ call.op = "none" /\ \E cls \in declared, instance \in AllInstances : Tojson(cls, instance)
    \/ call.op = "none" /\ \E cls \in declared : \E data \in JsonInputs(cls) : Fromjson(cls, data)
    \/ call.op = "none" /\ \E cls \in declared, flag \in BOOLEAN : GetMinSize(cls, flag)
    \/ call.op = "none" /\ \E cls \in declared, in_union \in BOOLEAN : GetCStructItems(cls, in_union)
    \/ Return

Spec == Init /\ [][Next]_vars

---------------------------------------------------------------------------
(* A schema whose union base holds a nested struct field ahead of its discriminator *)

NestedStatements ==
    { ClassStatement("Pt", "StructType", <<Field("p", SimpleFormat("B", 1), "")>>,
                     "", EmptyMap),
      ClassStatement("Env", "StructType",
                     <<Field("h", NoFormat, "Pt"), Field("e", SimpleFormat("B", 1), "")>>,
                     "e", EmptyMap),
      ClassStatement("EnvA", "Env", <<Field("v", SimpleFormat("B", 1), "")>>,
                     "", "e" :> IntV(1)),
      ClassStatement("EnvB", "Env", <<Field("u", SimpleFormat("H", 1), "")>>,
                     "", "e" :> IntV(2)) }

NestedNext ==
    \/ call.op = "none" /\ \E st \in NestedStatements : Declare(st)
    \/ call.op = "none" /\ \E cls \in declared, instance \in AllInstances : Encode(cls, instance)
    \/ call.op = "none" /\ \E cls \in declared, data \in Buffers : Decode(cls, data)
    \/ call.op = "none" /\ \E cls \in declared, instance \in AllInstances : Tojson(cls, instance)
    \/ call.op = "none" /\ \E cls \in declared : \E data \in JsonInputs(cls) : Fromjson(cls, data)
    \/ call.op = "none" /\ \E cls \in declared, flag \in BOOLEAN : GetMinSize(cls, flag)
    \/ call.op = "none" /\ \E cls \in declared, in_union \in BOOLEAN : GetCStructItems(cls, in_union)
    \/ Return

NestedSpec == Init /\ [][NestedNext]_vars

---------------------------------------------------------------------------
(* Operations on format descriptors *)

Formats ==
    { SimpleFormat("B", 1), SimpleFormat("H", 1), SimpleFormat("b", 1), SimpleFormat("H", 2),
      BoolFormat, FixedStrFormat(2),
      FixedHexFormat(2, <<58>>), FixedHexFormat(2, <<>>), FixedHexFormat(1, <<58>>),
      FixedHexFormat(2, <<45>>),
      VarArrayFormat(SimpleFormat("B", 1), "B"), VarArrayFormat(SimpleFormat("H", 1), "B"),
      VarStrFormat("B") }

LeafBytes == {0, 2, 97, 169, 195}
LeafBuffers == SeqsUpTo(LeafBytes, MaxBuf)

FormatCall(op, fmt, arg, ret) ==
    [op |-> op, cls |-> RootClass, fmt |-> fmt, arg |-> arg, arg_after |-> arg, ret |-> ret]

FormatEncode(fmt, value) ==
    /\ call.op = "none"
    /\ call' = FormatCall("format_encode", fmt, value, format_encode(fmt, value))
    /\ UNCHANGED <<classes, union_options, render_vars, editor_vars>>

FormatDecode(fmt, data) ==
    /\ call.op = "none"
    /\ call' = FormatCall("format_decode", fmt, BytesV(data), format_decode(fmt, BytesV(data)))
    /\ UNCHANGED <<classes, union_options, render_vars, editor_vars>>

FormatGetMinSize(fmt) ==
    /\ call.op = "none"
    /\ call' = FormatCall("format_get_min_size", fmt, NoneV, IntV(format_get_min_size(fmt)))
    /\ UNCHANGED <<classes, union_options, render_vars, editor_vars>>

LeafNext ==
    \/ call.op = "none" /\ \E fmt \in Formats : \E value \in LegalValues(fmt) : FormatEncode(fmt, value)
    \/ call.op = "none" /\ \E fmt \in Formats, data \in LeafBuffers : FormatDecode(fmt, data)
    \/ call.op = "none" /\ \E fmt \in Formats : FormatGetMinSize(fmt)
    \/ Return

LeafSpec == Init /\ [][LeafNext]_vars

---------------------------------------------------------------------------
(* Properties *)

EmptyBytes == BytesV(<<>>)

\* C2: Leaf round-trip -- for every format descriptor and every legal value v,
\* encode(v) is a byte string and decode(encode(v)) is (v, empty bytes).
LeafRoundTrip ==
    call.op = "format_encode" =>
        /\ call.ret.t = "bytes"
        /\ format_decode(call.fmt, call.ret) = TupleV(<<call.arg, EmptyBytes>>)

\* the field is bound to neither a format descriptor nor a nested struct type
unbound(f) == f.format.k = "none" /\ f.type = RootClass

RECURSIVE well_formed(_)
\* a struct type of the data model: every field has exactly one binding
well_formed(cls) ==
    \A k \in 1..Len(fields(cls)) :
        /\ ~unbound(fields(cls)[k])
        /\ fields(cls)[k].type # RootClass => well_formed(fields(cls)[k].type)

\* the instance passed to encode or tojson is a legal instance of the called type:
\* of that type itself or, for a union base, of a subclass of it, and its type is
\* a struct type of the data model
LegalInstanceCall ==
    /\ call.arg.t = "inst"
    /\ isinstance(call.arg, call.cls)
    /\ well_formed(call.arg.cls)

\* C1: Struct round-trip -- for every struct type T and every legal instance i of T
\* (a variant through its union base included), decode(encode(i)) is (i, empty bytes).
StructRoundTrip ==
    (call.op = "encode" /\ LegalInstanceCall) =>
        /\ call.ret.t = "bytes"
        /\ StructType_decode(call.cls, call.ret) = TupleV(<<call.arg, EmptyBytes>>)

\* C5: Truncation safety -- decode of a buffer shorter than get_min_size() ends in
\* an error and never returns a value built from fewer bytes than the declared width.
TruncationSafety ==
    (call.op = "format_decode" /\ Len(call.arg.y) < format_get_min_size(call.fmt)) =>
        IsRaise(call.ret)

\* the discriminator value StructType.decode reads for union base cls from data
\* (None when the base's fields cannot be read)
discriminator_read(cls, data) ==
    LET r == decode_fields(fields(cls), data, EmptyMap, EmptyMap) IN
    IF IsRaise(r) THEN NoneV
    ELSE IF union_type_field(cls) \notin DOMAIN r.no_init_data THEN NoneV
    ELSE r.no_init_data[union_type_field(cls)]

\* the classes the variant table of cls holds for a discriminator value
VariantsFor(cls, value) ==
    LET values == options_of(union_options, union_type_field(cls)) IN
    {values[k].cls : k \in {j \in 1..Len(values) : py_key_eq(values[j].value, value)}}

UnionDecodeReturned ==
    /\ call.op = "decode"
    /\ union_type_field(call.cls) # ""
    /\ ~IsRaise(call.ret)

\* C3 (as stated): Union resolution -- a successful decode on a union base B of a
\* buffer whose discriminator value is registered to variant V returns an instance
\* whose concrete type is exactly V, and never an instance of B itself.
UnionResolution ==
    UnionDecodeReturned =>
        /\ call.ret.x[1].cls # call.cls
        /\ \A V \in VariantsFor(call.cls, discriminator_read(call.cls, call.arg)) :
              call.ret.x[1].cls = V

\* C3 (amended): the concrete type is exactly V when V is not itself a union base;
\* when V is a union base, the result is what V.decode returns for the same buffer;
\* no successful decode on a union base returns an instance of a union base.
UnionResolutionNested ==
    UnionDecodeReturned =>
        /\ call.ret.x[1].cls # call.cls
        /\ union_type_field(call.ret.x[1].cls) = ""
        /\ VariantsFor(call.cls, discriminator_read(call.cls, call.arg)) # {}
        /\ \A V \in VariantsFor(call.cls, discriminator_read(call.cls, call.arg)) :
              /\ union_type_field(V) = "" => call.ret.x[1].cls = V
              /\ union_type_field(V) # "" =>
                    /\ call.ret = StructType_decode(V, call.arg)
                    /\ call.ret.x[1].cls # V

\* a decode on a union base resolved through a variant that is itself a union base
UnionResolutionNestedWitness ==
    /\ UnionDecodeReturned
    /\ \E V \in VariantsFor(call.cls, discriminator_read(call.cls, call.arg)) :
          union_type_field(V) # "" /\ call.ret.x[1].cls # V

\* the discriminator value of a call on a union base is read and is not registered
UnknownDiscriminator ==
    /\ union_type_field(call.cls) # ""
    /\ \/ /\ call.op = "decode"
          /\ ~IsRaise(decode_fields(fields(call.cls), call.arg, EmptyMap, EmptyMap))
          /\ VariantsFor(call.cls, discriminator_read(call.cls, call.arg)) = {}
       \/ /\ call.op = "fromjson"
          /\ call.arg.t = "dict"
          /\ ~IsRaise(fromjson_fields(fields(call.cls), call.arg.d, EmptyMap, EmptyMap))
          /\ VariantsFor(call.cls, dict_get(call.arg.d, union_type_field(call.cls))) = {}

\* C4: Unknown discriminator -- decode or fromjson on a union base whose discriminator
\* value is not in the base's variant table ends in an error and returns no instance.
UnknownDiscriminatorRaises ==
    UnknownDiscriminator => call.ret = Raise("TypeError")

\* an unknown discriminator value met a non-empty variant table
UnknownDiscriminatorWitness ==
    /\ UnknownDiscriminator
    /\ call.op = "decode"
    /\ get_types(call.cls) # <<>>
    /\ IsRaise(call.ret)


RECURSIVE has_union(_)
\* cls is a union base, or a field of cls holds a nested struct type that is one
has_union(cls) ==
    \/ union_type_field(cls) # ""
    \/ \E k \in 1..Len(fields(cls)) :
          fields(cls)[k].type # RootClass /\ has_union(fields(cls)[k].type)

EncodeReturnedBytes ==
    /\ call.op = "encode"
    /\ LegalInstanceCall
    /\ call.ret.t = "bytes"
    /\ ~IsRaise(StructType_get_min_size(call.cls, FALSE))

\* C6 (as stated): Min-size soundness -- for every struct type T, union bases
\* included, and every legal instance i, len(T.encode(i)) >= T.get_min_size().
MinSizeSound ==
    EncodeReturnedBytes =>
        Len(call.ret.y) >= StructType_get_min_size(call.cls, FALSE).i

RECURSIVE SumOfSizes(_)
\* the minimum sizes of a sequence of descriptor-bound fields, added up
SumOfSizes(fs) ==
    IF fs = <<>> THEN 0
    ELSE (IF fs[1].format.k # "none" THEN format_get_min_size(fs[1].format) ELSE 0)
         + SumOfSizes(Tail(fs))

\* C6 (amended): len(T.encode(i)) >= T.get_min_size() for every struct type T that
\* is not a union base and holds no nested union base; for a union base B whose
\* fields are descriptor-bound, len(B.encode(i)) >= the sum of the minimum sizes
\* of B's fields.
MinSizeSoundNonUnion ==
    EncodeReturnedBytes =>
        /\ ~has_union(call.cls) =>
              Len(call.ret.y) >= StructType_get_min_size(call.cls, FALSE).i
        /\ union_type_field(call.cls) # "" =>
              Len(call.ret.y) >= SumOfSizes(fields(call.cls))

\* a variant with inherited fields was encoded through its own type
MinSizeSoundNonUnionWitness ==
    /\ EncodeReturnedBytes
    /\ ~has_union(call.cls)
    /\ classes[call.cls].base # RootClass
    /\ StructType_get_min_size(call.cls, FALSE).i > 0

\* C7: JSON round-trip -- for every struct type T and every legal instance i,
\* fromjson(tojson(i)) == i; through a union base B the result is an instance of
\* the variant, equal to i.
JsonRoundTrip ==
    (call.op = "tojson" /\ LegalInstanceCall) =>
        /\ call.ret.t = "dict"
        /\ StructType_fromjson(call.cls, call.ret) = call.arg

\* a variant instance went through the tojson of its union base
JsonRoundTripWitness ==
    /\ call.op = "tojson"
    /\ LegalInstanceCall
    /\ union_type_field(call.cls) # ""
    /\ call.ret.t = "dict"

\* the classes registered in the variant table of union base cls
Variants(cls) == {get_types(cls)[k].cls : k \in 1..Len(get_types(cls))}

RECURSIVE MaxOf(_)
MaxOf(S) ==
    IF S = {} THEN 0
    ELSE LET n == CHOOSE m \in S : TRUE IN Max2(n, MaxOf(S \ {n}))

UnionMinSizeReturned ==
    /\ call.op = "get_min_size"
    /\ call.arg = BoolV(FALSE)
    /\ union_type_field(call.cls) # ""
    /\ ~IsRaise(call.ret)

\* C8 (as stated): Union minimum size -- B.get_min_size() is the sum of the minimum
\* sizes of B's fields plus the maximum over the registered variants of that
\* variant's minimum size (0 when none is registered).
UnionMinSize ==
    UnionMinSizeReturned =>
        call.ret.i = SumOfSizes(fields(call.cls))
                     + MaxOf({StructType_get_min_size(V, FALSE).i : V \in Variants(call.cls)})

\* the minimum size of the fields a variant declares itself; of a variant that is
\* a union base, its whole get_min_size()
OwnMinSize(V) ==
    IF union_type_field(V) # "" THEN StructType_get_min_size(V, FALSE).i
    ELSE SumOfSizes(SelectSeq(fields(V), LAMBDA f : f.defining_class = V))

\* C8 (amended): B.get_min_size() is the sum of the minimum sizes of B's fields plus
\* the maximum over the registered variants of the minimum size of the fields the
\* variant declares itself (of a variant that is a union base: its get_min_size()).
UnionMinSizeOwnFields ==
    UnionMinSizeReturned =>
        call.ret.i = SumOfSizes(fields(call.cls)) + MaxOf({OwnMinSize(V) : V \in Variants(call.cls)})

\* the minimum size of a union base with two registered variants of different size
UnionMinSizeOwnFieldsWitness ==
    /\ UnionMinSizeReturned
    /\ \E V, W \in Variants(call.cls) : OwnMinSize(V) < OwnMinSize(W)


\* a step keeps every registry key and every entry of every variant table in place
RegistryKept ==
    /\ Len(union_options') >= Len(union_options)
    /\ \A k \in 1..Len(union_options) :
          /\ union_options'[k].key = union_options[k].key
          /\ Len(union_options'[k].values) >= Len(union_options[k].values)
          /\ \A j \in 1..Len(union_options[k].values) :
                union_options'[k].values[j] = union_options[k].values[j]

\* a class statement carries a value that is already registered for its discriminator
DuplicateDeclared ==
    /\ Len(classes') = Len(classes) + 1
    /\ \E k \in 1..Len(union_options) :
          /\ union_options[k].key \in DOMAIN classes'[Len(classes')].kwargs
          /\ has_value(union_options[k].values,
                       classes'[Len(classes')].kwargs[union_options[k].key])

\* every registry entry belongs to the first class statement that carried it:
\* no key and no value is listed twice, the registered class was declared with the
\* value, and no class statement that completed before it was
RegistryFirstDeclared ==
    /\ \A k, l \in 1..Len(union_options) :
          union_options[k].key = union_options[l].key => k = l
    /\ \A k \in 1..Len(union_options) :
          LET key == union_options[k].key
              values == union_options[k].values
          IN  \A j \in 1..Len(values) :
                /\ \A i \in 1..Len(values) :
                      py_key_eq(values[i].value, values[j].value) => i = j
                /\ values[j].cls \in 1..Len(classes)
                /\ key \in DOMAIN classes[values[j].cls].kwargs
                /\ classes[values[j].cls].kwargs[key] = values[j].value
                /\ \A c \in 1..(values[j].cls - 1) :
                      ~(/\ classes[c].ok
                        /\ key \in DOMAIN classes[c].kwargs
                        /\ py_key_eq(classes[c].kwargs[key], values[j].value))

\* C9: Union registry is append-only and single-valued -- each (discriminator field,
\* value) pair maps to the first variant declared with it; a class statement with an
\* already registered value is a definition error that leaves every existing entry
\* unchanged; no entry is ever replaced or removed.
RegistryAppendOnly ==
    /\ []RegistryFirstDeclared
    /\ [][/\ RegistryKept
          /\ DuplicateDeclared =>
                (~classes'[Len(classes')].ok /\ call'.ret = Raise("TypeError"))]_vars

\* a class statement with an already registered value was rejected
RegistryAppendOnlyWitness ==
    /\ call.op = "class"
    /\ call.ret = Raise("TypeError")
    /\ \E k \in 1..Len(union_options) : \E j \in 1..Len(union_options[k].values) :
          /\ union_options[k].values[j].cls # call.cls
          /\ union_options[k].key \in DOMAIN classes[call.cls].kwargs
          /\ classes[call.cls].kwargs[union_options[k].key] = union_options[k].values[j].value

CodecCalls == {"encode", "decode", "tojson", "fromjson", "get_min_size"}

UnboundFieldRejected ==
    /\ \A c \in declared : \A k \in 1..Len(classes[c].own) : ~unbound(classes[c].own[k])
    /\ call.op \in {"encode", "decode", "tojson", "fromjson"} =>
          \A k \in 1..Len(fields(call.cls)) : ~unbound(fields(call.cls)[k])


\* every discriminator field the class of instance i is registered for reads the
\* value the class was registered under
HasRegisteredDiscriminators(i) ==
    \A k \in 1..Len(union_options) : \A j \in 1..Len(union_options[k].values) :
        union_options[k].values[j].cls = i.cls =>
            getattr(i, union_options[k].key) = union_options[k].values[j].value

\* C12: a variant's discriminator is fixed by its declaration -- every instance of a
\* registered variant produced by the constructor, by decode or by fromjson reads the
\* value the variant was registered under, whatever the input carries, and the
\* discriminator field is no constructor argument.
DiscriminatorFixed ==
    /\ \A i \in AllInstances : HasRegisteredDiscriminators(i)
    /\ (call.op = "decode" /\ call.ret.t = "tuple") => HasRegisteredDiscriminators(call.ret.x[1])
    /\ (call.op = "fromjson" /\ call.ret.t = "inst") => HasRegisteredDiscriminators(call.ret)
    /\ \A k \in 1..Len(union_options) : \A j \in 1..Len(union_options[k].values) :
          LET fs == fields(union_options[k].values[j].cls) IN
          \A n \in 1..Len(fs) : fs[n].name = union_options[k].key => ~fs[n].init

\* decode called on a registered variant returned an instance from a buffer that
\* carries another discriminator value than the variant's
DiscriminatorFixedWitness ==
    /\ call.op = "decode"
    /\ call.ret.t = "tuple"
    /\ \E k \in 1..Len(union_options) : \E j \in 1..Len(union_options[k].values) :
          /\ union_options[k].values[j].cls = call.ret.x[1].cls
          /\ call.cls = call.ret.x[1].cls
          /\ LET r == decode_fields(fields(call.cls), call.arg, EmptyMap, EmptyMap) IN
             /\ union_options[k].key \in DOMAIN r.no_init_data
             /\ r.no_init_data[union_options[k].key] # union_options[k].values[j].value


\* C13: Remainder -- for every struct type T, every legal instance i and every
\* trailing byte string t, T.decode(T.encode(i) + t) is (i, t); through a union base
\* the remainder is the bytes after the variant's last field.
StructRemainder ==
    (call.op = "encode" /\ LegalInstanceCall) =>
        /\ call.ret.t = "bytes"
        /\ \A t \in Buffers :
              StructType_decode(call.cls, BytesV(call.ret.y \o t))
                  = TupleV(<<call.arg, BytesV(t)>>)


\* sizeof of the C types the generator emits
c_sizeof(c_type) == IF c_type \in {"uint8_t", "int8_t", "char"} THEN 1 ELSE 2

RECURSIVE c_dims_product(_)
c_dims_product(dims) == IF dims = <<>> THEN 1 ELSE dims[1] * c_dims_product(Tail(dims))

RECURSIVE c_members_size(_)
\* the bytes a sequence of packed declarators takes
c_members_size(members) ==
    IF members = <<>> THEN 0
    ELSE c_sizeof(members[1].c_type) * c_dims_product(members[1].dims)
         + c_members_size(Tail(members))

RECURSIVE c_items_size(_)
RECURSIVE c_options_size(_)
\* the bytes a packed struct of the given items takes; a union takes its largest member
c_items_size(items) ==
    IF items = <<>> THEN 0
    ELSE (IF items[1].kind = "format" THEN c_members_size(items[1].members)
          ELSE IF items[1].kind = "struct" THEN c_items_size(items[1].items)
          ELSE Max2(items[1].bytes, c_options_size(items[1].options)))
         + c_items_size(Tail(items))

c_options_size(options) ==
    IF options = <<>> THEN 0
    ELSE Max2(c_items_size(options[1].items), c_options_size(Tail(options)))

\* get_c_struct_items of a struct type of the data model, rendered on its own
CDeclarationReturned ==
    /\ call.op = "get_c_struct_items"
    /\ call.arg = BoolV(FALSE)
    /\ call.ret.t = "items"
    /\ classes[call.cls].ok
    /\ well_formed(call.cls)

\* the members of the declaration next to the union block, and the fields encode emits
CMembersAgree(items, fs) ==
    /\ Len(items) = Len(fs)
    /\ \A k \in 1..Len(items) :
          /\ k <= Len(fs)
          /\ items[k].name = fs[k].name
          /\ fs[k].format.k # "none" =>
                c_members_size(items[k].members) = format_get_min_size(fs[k].format)

\* C14: C layout agreement -- for every struct type T, a registered variant rendered
\* on its own included, the members of T's C declaration are, in order and with
\* their byte widths, the fields T.encode emits: none missing, none added, and an
\* encoding of an instance of T is as long as the declared struct.
CLayoutAgreement ==
    CDeclarationReturned =>
        /\ CMembersAgree(SelectSeq(call.ret.items, LAMBDA it : it.kind # "union"),
                         fields(call.cls))
        /\ (instantiable(call.cls) /\ ~has_union(call.cls)) =>
              \A i \in LegalInstances(call.cls) :
                  StructType_encode(call.cls, i, {}).t = "bytes" =>
                      Len(StructType_encode(call.cls, i, {}).y) = c_items_size(call.ret.items)


RECURSIVE EmittedOnce(_, _)
\* the encodings of the given fields of instance i, each once, in the given order
EmittedOnce(fs, i) ==
    IF fs = <<>> THEN EmptyBytes
    ELSE LET value == getattr(i, fs[1].name)
             piece == IF fs[1].format.k # "none" THEN format_encode(fs[1].format, value)
                      ELSE StructType_encode(value.cls, value, {})
         IN  bytes_iadd(piece, EmittedOnce(Tail(fs), i))

\* encode was called on a union base with an instance of one of its variants
UnionEncodeCall ==
    /\ call.op = "encode"
    /\ union_type_field(call.cls) # ""
    /\ LegalInstanceCall
    /\ call.arg.cls # call.cls

\* C15: Union encode -- for every union base B, with fields bound to descriptors or
\* to nested struct types, and every instance i of a registered variant V, B.encode(i)
\* is the base's fields in declaration order followed by V's additional fields, each
\* emitted once, and equals V.encode(i) byte for byte.
UnionEncode ==
    UnionEncodeCall =>
        /\ call.ret.t = "bytes"
        /\ call.ret = StructType_encode(call.arg.cls, call.arg, {})
        /\ call.ret = bytes_iadd(
               EmittedOnce(fields(call.cls), call.arg),
               EmittedOnce(SelectSeq(fields(call.arg.cls),
                                     LAMBDA f : f.name \notin field_names(fields(call.cls))),
                           call.arg))


\* the k-th of the equally wide pieces, c bytes each, that follow the first w bytes
PieceAt(y, w, c, k) == SubSeq(y, w + (k - 1) * c + 1, w + k * c)

\* encode returned the prefix with value Len(l) and the child encodings in order
VarArrayEncoded(fmt, l, ret) ==
    LET w == code_size(fmt.num_fmt)
        c == format_get_min_size(fmt.child)
    IN  /\ ret.t = "bytes"
        /\ Len(ret.y) = w + Len(l) * c
        /\ le_value(Take(ret.y, w)) = Len(l)
        /\ \A k \in 1..Len(l) : BytesV(PieceAt(ret.y, w, c, k)) = format_encode(fmt.child, l[k])

\* decode read the prefix value n and returned exactly the n child elements that
\* follow it, in order, with the bytes behind the n-th element
VarArrayDecoded(fmt, y, ret) ==
    LET w == code_size(fmt.num_fmt)
        c == format_get_min_size(fmt.child)
        n == le_value(Take(y, w))
    IN  IF Len(y) < w \/ Len(y) < w + n * c THEN IsRaise(ret)
        ELSE /\ ret.t = "tuple"
             /\ ret.x[1].t = "list"
             /\ Len(ret.x[1].l) = n
             /\ \A k \in 1..n :
                   format_decode(fmt.child, BytesV(PieceAt(y, w, c, k)))
                       = TupleV(<<ret.x[1].l[k], EmptyBytes>>)
             /\ ret.x[2] = BytesV(Drop(y, w + n * c))

\* C16: Variable array -- encode of a sequence of k elements is the unsigned length
\* prefix with value k followed by the k child encodings in order; decode reads the
\* prefix value n, decodes exactly n child elements in order and returns them with
\* the bytes that follow the n-th element.
VarArrayCodec ==
    /\ (call.op = "format_encode" /\ call.fmt.k = "VarArray") =>
          VarArrayEncoded(call.fmt, call.arg.l, call.ret)
    /\ (call.op = "format_decode" /\ call.fmt.k = "VarArray") =>
          VarArrayDecoded(call.fmt, call.arg.y, call.ret)

\* decode returned two elements and left bytes behind them
VarArrayCodecWitness ==
    /\ call.op = "format_decode"
    /\ call.fmt.k = "VarArray"
    /\ call.ret.t = "tuple"
    /\ Len(call.ret.x[1].l) = 2
    /\ call.ret.x[2] # EmptyBytes


\* C17: Fixed string(n) -- for every input string, encode returns a byte string of
\* exactly n bytes, the UTF-8 bytes cut to n and right-padded with zero bytes; decode
\* takes n bytes and returns them with trailing zero bytes stripped.
FixedStrCodec ==
    /\ (call.op = "format_encode" /\ call.fmt.k = "FixedStr") =>
          /\ call.ret.t = "bytes"
          /\ Len(call.ret.y) = call.fmt.num
          /\ call.ret.y = ljust0(Take(utf8_encode(call.arg.s), call.fmt.num), call.fmt.num)
    /\ (call.op = "format_decode" /\ call.fmt.k = "FixedStr" /\ call.ret.t = "tuple") =>
          /\ utf8_encode(call.ret.x[1].s) = rstrip0(Take(call.arg.y, call.fmt.num))
          /\ call.ret.x[2].y = Drop(call.arg.y, call.fmt.num)


\* C18: Fixed hex(n, sep) -- for every configured separator and every n-byte value b,
\* the string decode(b) returns is accepted by encode, and encode(decode(b)) == b.
FixedHexInverse ==
    (/\ call.op = "format_decode"
     /\ call.fmt.k = "FixedHex"
     /\ Len(call.arg.y) = call.fmt.num) =>
        /\ call.ret.t = "tuple"
        /\ format_encode(call.fmt, call.ret.x[1]) = call.arg


\* get_c_struct_items of a union base returned a declaration
UnionBlockReturned ==
    /\ call.op = "get_c_struct_items"
    /\ call.ret.t = "items"
    /\ union_type_field(call.cls) # ""

\* the last item of the declaration of a union base
UnionBlock(items) == items[Len(items)]

ItemNames(items) == [k \in 1..Len(items) |-> items[k].name]

\* the fields a class declares itself
OwnFields(V) == SelectSeq(fields(V), LAMBDA f : f.defining_class = V)

FieldNames(fs) == [k \in 1..Len(fs) |-> fs[k].name]

\* the raw-byte member is as large as what get_min_size adds to the base's own fields
BytesAsInMinSize(cls, u) ==
    u.bytes = StructType_get_min_size(cls, FALSE).i - SumOfSizes(fields(cls))

\* C19 (as stated): the union block of a union base B has one member per registered
\* variant, each holding only the fields that variant declares itself (no inherited
\* field, no discriminator), followed by a raw-byte member whose size is the maximum
\* over the variants of the summed minimum sizes of their own fields (0 when none),
\* the value get_min_size adds to B's own field sizes.
CUnionBlock ==
    UnionBlockReturned =>
        LET u == UnionBlock(call.ret.items)
            vs == get_types(call.cls)
        IN  /\ u.kind = "union"
            /\ Len(u.options) = Len(vs)
            /\ \A k \in 1..Len(u.options) :
                  /\ k <= Len(vs)
                  /\ u.options[k].option = vs[k].cls
                  /\ ItemNames(u.options[k].items)
                        = FieldNames(SelectSeq(OwnFields(vs[k].cls),
                                               LAMBDA f : ~f.union_discriminator))
            /\ u.bytes = MaxOf({SumOfSizes(OwnFields(V)) : V \in Variants(call.cls)})
            /\ BytesAsInMinSize(call.cls, u)

\* C19 (amended): one member per registered variant, in registration order; the
\* member of a variant that is no union base holds exactly the fields the variant
\* declares itself; the member of a variant that is itself a union base holds the
\* fields it declares, its own discriminator included, followed by its own union
\* block; the raw-byte member has the size of the largest get_min_size(True) of the
\* variants (for a union-base variant its whole get_min_size()), the value
\* get_min_size adds to B's own field sizes.
CUnionBlockNested ==
    UnionBlockReturned =>
        LET u == UnionBlock(call.ret.items)
            vs == get_types(call.cls)
        IN  /\ u.kind = "union"
            /\ Len(u.options) = Len(vs)
            /\ \A k \in 1..Len(u.options) :
                  /\ k <= Len(vs)
                  /\ u.options[k].option = vs[k].cls
                  /\ LET V == vs[k].cls
                         items == u.options[k].items
                     IN  IF union_type_field(V) = ""
                         THEN /\ ItemNames(items) = FieldNames(OwnFields(V))
                              /\ \A n \in 1..Len(items) : items[n].kind # "union"
                         ELSE /\ Len(items) = Len(OwnFields(V)) + 1
                              /\ SubSeq(ItemNames(items), 1, Len(items) - 1)
                                    = FieldNames(OwnFields(V))
                              /\ \A n \in 1..(Len(items) - 1) : items[n].kind # "union"
                              /\ UnionBlock(items).kind = "union"
                              /\ Len(UnionBlock(items).options) = Len(get_types(V))
                              /\ BytesAsInMinSize(V, UnionBlock(items))
            /\ u.bytes = MaxOf({OwnMinSize(V) : V \in Variants(call.cls)})
            /\ BytesAsInMinSize(call.cls, u)

\* the union block of a base with a plain variant and a variant that is a union base
CUnionBlockNestedWitness ==
    /\ UnionBlockReturned
    /\ \E V, W \in Variants(call.cls) :
          /\ union_type_field(V) = ""
          /\ union_type_field(W) # ""
          /\ OwnMinSize(V) > 0


RECURSIVE DecodePath(_, _, _)
\* the types decode runs on for a buffer, the called type first: the registry is
\* followed from each union base whose fields were read to the class registered for
\* the discriminator value read; a type met a second time ends the path
DecodePath(cls, data, path) ==
    IF \E k \in 1..Len(path) : path[k] = cls THEN Append(path, cls)
    ELSE LET r == decode_fields(fields(cls), data, EmptyMap, EmptyMap) IN
         IF IsRaise(r) \/ union_type_field(cls) = "" THEN Append(path, cls)
         ELSE IF union_type_field(cls) \notin DOMAIN r.no_init_data THEN Append(path, cls)
         ELSE IF get_type(cls, r.no_init_data[union_type_field(cls)]) = 0
              THEN Append(path, cls)
         ELSE DecodePath(get_type(cls, r.no_init_data[union_type_field(cls)]), data,
                         Append(path, cls))

\* y is what is left of data behind some prefix
IsSuffix(y, data) == Len(y) <= Len(data) /\ y = Drop(data, Len(data) - Len(y))

\* C20: One-shot decode path -- for every registry reachable by class statements and
\* every buffer, decode ends either with (instance, remainder) or with an error; on a
\* union base the variant is resolved only after all of the base's fields were read,
\* decode is re-run from the original buffer once per union level, and no type is
\* decoded twice.
OneShotDecode ==
    call.op = "decode" =>
        LET path == DecodePath(call.cls, call.arg, <<>>)
            last == path[Len(path)]
        IN  /\ \A a, b \in 1..Len(path) : path[a] = path[b] => a = b
            /\ \A a \in 1..(Len(path) - 1) :
                  /\ path[a] < path[a + 1]
                  /\ union_type_field(path[a]) # ""
                  /\ ~IsRaise(decode_fields(fields(path[a]), call.arg, EmptyMap, EmptyMap))
            /\ \A a \in 1..Len(path) : call.ret = StructType_decode(path[a], call.arg)
            /\ \/ IsRaise(call.ret)
               \/ /\ call.ret.t = "tuple"
                  /\ Len(call.ret.x) = 2
                  /\ call.ret.x[1].t = "inst"
                  /\ call.ret.x[1].cls = last
                  /\ union_type_field(last) = ""
                  /\ call.ret.x[2].t = "bytes"
                  /\ IsSuffix(call.ret.x[2].y, call.arg.y)
            /\ IsRaise(decode_fields(fields(call.cls), call.arg, EmptyMap, EmptyMap)) =>
                  call.ret = decode_fields(fields(call.cls), call.arg, EmptyMap, EmptyMap)

\* decode on a union base went through two union levels and returned an instance
OneShotDecodeWitness ==
    /\ call.op = "decode"
    /\ call.ret.t = "tuple"
    /\ Len(DecodePath(call.cls, call.arg, <<>>)) = 3

---------------------------------------------------------------------------
(* Typing of the variant tables *)

\* the class whose statement opened the variant table of key (lines 183-186): the
\* first class statement naming key as its union_type_field
union_base(key) ==
    CHOOSE c \in 1..Len(classes) :
        /\ classes[c].union_type_field = key
        /\ \A d \in 1..(c - 1) : classes[d].union_type_field # key

\* C22: Registry well-typedness -- after any sequence of type declarations every
\* type stored in the variant table of a union base B's discriminator field is a
\* proper subclass of B, so B.decode and B.fromjson only ever return instances of
\* subclasses of B.
RegistryWellTyped ==
    /\ \A k \in 1..Len(union_options) : \A j \in 1..Len(union_options[k].values) :
          LET B == union_base(union_options[k].key)
              V == union_options[k].values[j].cls
          IN  V # B /\ issubclass(V, B)
    /\ union_type_field(call.cls) # "" =>
          /\ (call.op = "decode" /\ call.ret.t = "tuple") => isinstance(call.ret.x[1], call.cls)
          /\ (call.op = "fromjson" /\ call.ret.t = "inst") => isinstance(call.ret, call.cls)

---------------------------------------------------------------------------
(* Length prefixes at the edge of their range *)

\* variable-length descriptors with one- and two-byte, unsigned and signed prefixes
PrefixFormats ==
    { VarArrayFormat(SimpleFormat("B", 1), "B"), VarArrayFormat(SimpleFormat("H", 1), "B"),
      VarArrayFormat(SimpleFormat("B", 1), "b"), VarArrayFormat(SimpleFormat("B", 1), "H"),
      VarStrFormat("B"), VarStrFormat("H") }

\* sequences and texts of n equal elements, n around the largest value of the prefix;
\* the text of 128 two-byte characters has 256 bytes
PrefixValues(fmt) ==
    LET lengths == IF code_size(fmt.num_fmt) = 1 THEN {0, 1, 2, 127, 128, 255, 256, 257}
                   ELSE {0, 1, 2, 65536}
    IN  IF fmt.k = "VarArray"
        THEN {ListV([k \in 1..n |-> IntV(v)]) : n \in lengths, v \in {0, 1, 255}}
        ELSE {StrV([k \in 1..n |-> c]) : n \in lengths, c \in {97, 98, 233}}

PrefixNext ==
    \/ call.op = "none" /\ \E fmt \in PrefixFormats : \E value \in PrefixValues(fmt) : FormatEncode(fmt, value)
    \/ Return

PrefixSpec == Init /\ [][PrefixNext]_vars

\* C23: Length-prefix range -- for a variable array or variable string with a length
\* prefix of w bytes, every successful encode writes a prefix whose value equals the
\* number of elements (bytes) that follow; an input with more than 2^(8w)-1 elements
\* makes encode fail with an error and never produces a prefix that wrapped modulo
\* 2^(8w).
PrefixRange ==
    (call.op = "format_encode" /\ call.fmt.k \in {"VarArray", "VarStr"}) =>
        LET w == code_size(call.fmt.num_fmt)
            n == IF call.fmt.k = "VarArray" THEN Len(call.arg.l)
                 ELSE Len(utf8_encode(call.arg.s))
            unit == IF call.fmt.k = "VarArray" THEN format_get_min_size(call.fmt.child) ELSE 1
        IN  /\ call.ret.t = "bytes" =>
                  /\ Len(call.ret.y) = w + n * unit
                  /\ le_value(Take(call.ret.y, w)) = n
            /\ n > Pow256(w) - 1 => IsRaise(call.ret)
            /\ call.ret.t \in {"bytes", "raise"}

\* a sequence of more than 2^(8w)-1 elements was handed to encode, which raised
PrefixRangeWitness ==
    /\ call.op = "format_encode"
    /\ call.fmt.k = "VarArray"
    /\ Len(call.arg.l) > Pow256(code_size(call.fmt.num_fmt)) - 1
    /\ call.ret = Raise("struct.error")

---------------------------------------------------------------------------
(* mapdata/render/theme.py: the cache of ThemeColorManager objects *)

MaxRefreshes == 2

\* a Theme row, and a reference to the id-th ThemeColorManager constructed
ThemeV(pk) == [t |-> "theme", pk |-> pk]
ManagerRef(id) == [t |-> "ref", id |-> id]

\* what callers pass to for_theme: None, a primary key (3 names no row), a Theme
Themes == {NoneV} \cup {IntV(pk) : pk \in {1, 2, 3}} \cup {ThemeV(pk) : pk \in {1, 2}}

\* ColorManager.for_theme(theme): the class attributes, the objects constructed and
\* the returned value; every ThemeColorManager() is stamped with the number of
\* refresh() calls made before it
for_theme(theme) ==
    LET made == ManagerRef(Len(managers) + 1)
        row == IF theme.t = "theme" THEN theme
               ELSE IF theme.i \in {1, 2} THEN ThemeV(theme.i)
               ELSE Raise("DoesNotExist")
    IN  IF theme = NoneV
        THEN IF ColorManager.default_theme = NoneV
             THEN [cm |-> [ColorManager EXCEPT !.default_theme = made],
                   objs |-> Append(managers, [theme |-> NoneV, refreshes |-> refreshes]),
                   ret |-> made]
             ELSE [cm |-> ColorManager, objs |-> managers,
                   ret |-> ColorManager.default_theme]
        ELSE IF IsRaise(row) THEN [cm |-> ColorManager, objs |-> managers, ret |-> row]
        ELSE IF row.pk \notin DOMAIN ColorManager.themes
             THEN [cm |-> [ColorManager EXCEPT !.themes = (row.pk :> made) @@ @],
                   objs |-> Append(managers, [theme |-> row, refreshes |-> refreshes]),
                   ret |-> made]
        ELSE [cm |-> ColorManager, objs |-> managers, ret |-> ColorManager.themes[row.pk]]

ForTheme(theme) ==
    /\ call.op = "none"
    /\ ColorManager' = for_theme(theme).cm
    /\ managers' = for_theme(theme).objs
    /\ call' = Call("for_theme", RootClass, theme, theme, for_theme(theme).ret)
    /\ UNCHANGED <<classes, union_options, refreshes, editor_vars>>

Refresh ==
    /\ call.op = "none"
    /\ refreshes < MaxRefreshes
    /\ ColorManager' = [ColorManager EXCEPT !.themes = EmptyMap]
    /\ refreshes' = refreshes + 1
    /\ call' = Call("refresh", RootClass, NoneV, NoneV, NoneV)
    /\ UNCHANGED <<classes, union_options, managers, editor_vars>>

ThemeNext ==
    \/ call.op = "none" /\ \E theme \in Themes : ForTheme(theme)
    \/ Refresh
    \/ Return

ThemeSpec == Init /\ [][ThemeNext]_vars

\* C24: ColorManager cache -- between two refresh() calls, repeated for_theme(t)
\* calls for the same theme (including t = None, the default theme) return the same
\* cached ThemeColorManager; after refresh(), every later for_theme(t) call,
\* including t = None, returns a ThemeColorManager constructed after that refresh
\* and never one built before it.
ColorCache ==
    /\ \A a, b \in 1..Len(managers) :
          (managers[a].theme = managers[b].theme
              /\ managers[a].refreshes = managers[b].refreshes) => a = b
    /\ (call.op = "for_theme" /\ call.ret.t = "ref") =>
          /\ call.ret = IF call.arg = NoneV THEN ColorManager.default_theme
                        ELSE ColorManager.themes[IF call.arg.t = "theme" THEN call.arg.pk
                                                 ELSE call.arg.i]
          /\ managers[call.ret.id].theme =
                IF call.arg.t = "int" THEN ThemeV(call.arg.i) ELSE call.arg
          /\ managers[call.ret.id].refreshes = refreshes

---------------------------------------------------------------------------
(* editor/views/base.py: accesses_mapdata *)

MaxOps == 2

Methods == {"GET", "POST", "PUT", "DELETE"}

\* line 72 with "PUT" left out
writable_method_post_only(method) == method = "POST"

\* line 72
writable_method(method) == method \in {"POST", "PUT"}

\* wrapped(request) is entered: request.method and request.changeset.direct_editing
Begin(r, method, direct_editing) ==
    /\ requests[r].pc = "new"
    /\ requests' = [requests EXCEPT ![r] = [@ EXCEPT !.pc = "enter", !.method = method,
                                                     !.direct_editing = direct_editing]]
    /\ UNCHANGED <<classes, union_options, call, render_vars, map_update_lock, mapupdates,
                   committed, changeset>>

\* line 77: MapUpdate.lock() is waited for and taken when the method is writable,
\* noctx() otherwise; line 95: within_changeset takes no MapUpdate lock
Enter(r) ==
    /\ requests[r].pc = "enter"
    /\ IF requests[r].direct_editing /\ writable_method(requests[r].method)
       THEN map_update_lock = 0 /\ map_update_lock' = r
       ELSE UNCHANGED map_update_lock
    /\ requests' = [requests EXCEPT ![r].pc = "view"]
    /\ UNCHANGED <<classes, union_options, call, render_vars, mapupdates, committed,
                   changeset>>

\* lines 83-84 and 46-47, 97: the view runs inside the overlay manager, which records
\* its operations; the view returns or raises
View(r, operations, raises) ==
    /\ requests[r].pc = "view"
    /\ requests' = [requests EXCEPT ![r] = [@ EXCEPT !.pc = IF raises THEN "exit" ELSE "after",
                                                     !.operations = operations,
                                                     !.error = IF raises THEN "view" ELSE ""]]
    /\ UNCHANGED <<classes, union_options, call, render_vars, map_update_lock, mapupdates,
                   committed, changeset>>

\* lines 87-92 for direct editing; lines 48-57 for a changeset, whose new operations
\* and update are saved with it
AfterView(r) ==
    /\ requests[r].pc = "after"
    /\ LET req == requests[r] IN
       IF req.operations = 0
       THEN /\ requests' = [requests EXCEPT ![r].pc = "exit"]
            /\ UNCHANGED <<mapupdates, changeset>>
       ELSE IF ~req.direct_editing
       THEN /\ changeset' = [operations |-> changeset.operations + req.operations,
                             updates |-> changeset.updates + 1]
            /\ requests' = [requests EXCEPT ![r].pc = "exit"]
            /\ UNCHANGED mapupdates
       ELSE IF writable_method(req.method)
       THEN /\ mapupdates' = Append(mapupdates, [type |-> "direct_edit", request |-> r,
                                                 locked |-> map_update_lock = r])
            /\ requests' = [requests EXCEPT ![r].pc = "exit"]
            /\ UNCHANGED changeset
       ELSE /\ requests' = [requests EXCEPT ![r] = [@ EXCEPT !.pc = "exit",
                                                            !.error = "ValueError"]]
            /\ UNCHANGED <<mapupdates, changeset>>
    /\ UNCHANGED <<classes, union_options, call, render_vars, map_update_lock, committed>>

\* the with block of line 77 is left: the lock is released and its transaction ends,
\* keeping what an overlay manager enabled with commit=True (line 83) wrote when no
\* exception passes through; line 98 returns the result
Exit(r) ==
    /\ requests[r].pc = "exit"
    /\ requests' = [requests EXCEPT ![r].pc = "done"]
    /\ map_update_lock' = IF map_update_lock = r THEN 0 ELSE map_update_lock
    /\ committed' = IF /\ requests[r].direct_editing
                       /\ writable_method(requests[r].method)
                       /\ requests[r].error = ""
                       /\ requests[r].operations > 0
                    THEN committed \cup {r} ELSE committed
    /\ UNCHANGED <<classes, union_options, call, render_vars, mapupdates, changeset>>

EditorNext ==
    \/ \E r \in Requests, method \in Methods, direct_editing \in BOOLEAN :
          Begin(r, method, direct_editing)
    \/ \E r \in Requests : Enter(r)
    \/ \E r \in Requests, operations \in 0..MaxOps, raises \in BOOLEAN :
          View(r, operations, raises)
    \/ \E r \in Requests : AfterView(r)
    \/ \E r \in Requests : Exit(r)

EditorSpec == Init /\ [][EditorNext]_vars

\* the MapUpdate objects created for request r
UpdatesOf(r) == {k \in 1..Len(mapupdates) : mapupdates[k].request = r}

\* C21 (as stated): accesses_mapdata with direct editing -- changes are committed
\* only when the request method is POST or PUT; a MapUpdate of type direct_edit is
\* created exactly when the method is POST or PUT and the overlay manager recorded at
\* least one operation, and it is created while the MapUpdate lock taken before the
\* view ran is still held; a request with any other method that recorded operations
\* ends in an error and creates no MapUpdate.
DirectEditing ==
    /\ \A r \in committed : requests[r].method \in {"POST", "PUT"}
    /\ \A k \in 1..Len(mapupdates) :
          mapupdates[k].type = "direct_edit" /\ mapupdates[k].locked
    /\ \A r \in Requests : (requests[r].pc = "done" /\ requests[r].direct_editing) =>
          /\ Cardinality(UpdatesOf(r)) <= 1
          /\ UpdatesOf(r) # {} <=>
                (requests[r].method \in {"POST", "PUT"} /\ requests[r].operations >= 1)
          /\ (requests[r].method \notin {"POST", "PUT"} /\ requests[r].operations >= 1) =>
                (requests[r].error # "" /\ UpdatesOf(r) = {})

\* C21 (amended): as stated, with the MapUpdate created exactly when the method is
\* POST or PUT, the view returned without raising, and the overlay manager recorded
\* at least one operation; a request without direct editing creates no MapUpdate.
DirectEditingReturned ==
    /\ \A r \in committed : requests[r].method \in {"POST", "PUT"}
    /\ \A k \in 1..Len(mapupdates) :
          mapupdates[k].type = "direct_edit" /\ mapupdates[k].locked
    /\ \A r \in Requests : requests[r].pc = "done" =>
          /\ Cardinality(UpdatesOf(r)) <= 1
          /\ UpdatesOf(r) # {} <=>
                /\ requests[r].direct_editing
                /\ requests[r].method \in {"POST", "PUT"}
                /\ requests[r].error # "view"
                /\ requests[r].operations >= 1
          /\ (requests[r].direct_editing /\ requests[r].method \notin {"POST", "PUT"}
                /\ requests[r].operations >= 1) =>
                (requests[r].error # "" /\ UpdatesOf(r) = {})

\* a PUT request under direct editing has ended with its MapUpdate created, and a GET
\* request under direct editing whose view recorded operations has ended in ValueError
DirectEditingReturnedWitness ==
    \E r, q \in Requests :
        /\ requests[r].pc = "done" /\ requests[r].method = "PUT" /\ UpdatesOf(r) # {}
        /\ requests[q].pc = "done" /\ requests[q].method = "GET"
        /\ requests[q].direct_editing /\ requests[q].error = "ValueError"

====
